---- MODULE Spec2Model ----
(***************************************************************************)
(* A model of moka (src/moka/__init__.py): the chainable List and Dict     *)
(* containers and the binder List._f / Dict._f they resolve callables      *)
(* with.  The state is the heap of container objects a caller holds and a  *)
(* record of the last call (its inputs, what it returned, the argument     *)
(* tuples it passed to the caller's function).  Every method is one        *)
(* action: the program is single threaded and a method runs to its return  *)
(* or to the first error.  Between two calls the caller drops the record   *)
(* of the previous one (Discard).                                          *)
(***************************************************************************)
EXTENDS Integers, Sequences, FiniteSets, TLC

VARIABLES heap, last

vars == <<heap, last>>

(* Bounds of the model. *)
MaxVal == 2
MaxLen == 3
MaxChainLen == 2
MaxObjs == 3
MaxArgs == 2
MaxPairs == 1
MaxKey == 1
MaxShortArgs == 1

(* The placeholder sentinel (class Blank, aliased _): a value outside the  *)
(* element values.  SelfArg stands for the container itself where do       *)
(* passes it to the caller's function.                                     *)
Blank == -1
SelfArg == -2

Values == 0 .. MaxVal
Keys == 0 .. MaxKey
Modulus == MaxVal + 1

(* What a call gives back to the caller: a reference to a container, a     *)
(* plain value, None, or a propagated error.                               *)
Ref(o) == [kind |-> "ref", v |-> o]
Val(n) == [kind |-> "val", v |-> n]
None == [kind |-> "none", v |-> 0]
Raise == [kind |-> "raise", v |-> 0]
Unset == [kind |-> "unset", v |-> 0]

Range(s) == {s[i] : i \in 1 .. Len(s)}

RECURSIVE SeqsUpTo(_, _)
SeqsUpTo(S, n) ==
  IF n = 0 THEN {<<>>}
  ELSE LET shorter == SeqsUpTo(S, n - 1)
       IN  shorter \cup {Append(s, x) : s \in {t \in shorter : Len(t) = n - 1}, x \in S}

(***************************************************************************)
(* The caller's functions.  They are inputs of the library, not part of    *)
(* it: strict integer functions that reject a wrong number of arguments,   *)
(* any keyword argument and any non-integer argument (TypeError), and div  *)
(* rejects a zero divisor (ZeroDivisionError).  A predicate's True and     *)
(* False are Python's 1 and 0.                                             *)
(***************************************************************************)
Funcs == {"neg", "sub", "div", "lt", "not_lt"}

Arity(f) == IF f = "neg" THEN 1 ELSE 2

Ok(n) == [ok |-> TRUE, val |-> n]
Fail == [ok |-> FALSE, val |-> 0]

Truthy(n) == n # 0

\* The Python call of f with positional arguments argv and keyword arguments.
Call(f, argv, kwargs) ==
  IF kwargs \/ Len(argv) # Arity(f) \/ \E i \in 1 .. Len(argv) : argv[i] \notin Values
  THEN Fail
  ELSE CASE f = "neg" -> Ok((Modulus - argv[1]) % Modulus)
         [] f = "sub" -> Ok((argv[1] - argv[2]) % Modulus)
         [] f = "div" -> IF argv[2] = 0 THEN Fail ELSE Ok(argv[1] \div argv[2])
         [] f = "lt" -> Ok(IF argv[1] < argv[2] THEN 1 ELSE 0)
         [] f = "not_lt" -> Ok(IF argv[1] < argv[2] THEN 0 ELSE 1)

(* Functions of a whole container, for do: len(c) and get(c, i) = c[i].    *)
ContainerFuncs == {"len", "get"}

CallWith(f, argv, kwargs, obj) ==
  IF kwargs THEN Fail
  ELSE IF f = "len" /\ argv = <<SelfArg>>
  THEN Ok(IF obj.cls = "List" THEN Len(obj.items) ELSE Cardinality(DOMAIN obj.items))
  ELSE IF f = "get" /\ Len(argv) = 2 /\ argv[1] = SelfArg /\ argv[2] \in Values
  THEN IF obj.cls = "List"
       THEN IF argv[2] < Len(obj.items) THEN Ok(obj.items[argv[2] + 1]) ELSE Fail
       ELSE IF argv[2] \in DOMAIN obj.items THEN Ok(obj.items[argv[2]]) ELSE Fail
  ELSE Fail

(***************************************************************************)
(* Containers.                                                             *)
(***************************************************************************)
(* List(iterable): a new list object holding the elements. *)
ListObj(items) == [cls |-> "List", items |-> items, save |-> FALSE, last_value |-> Unset]

ListRefs == {o \in 1 .. Len(heap) : heap[o].cls = "List"}
DictRefs == {o \in 1 .. Len(heap) : heap[o].cls = "Dict"}

(* The inputs: bound positional arguments (with placeholders), and the     *)
(* shorter ones used where objects are also allocated; element sequences,  *)
(* shorter too where the copying methods multiply them.                    *)
ArgTuples == SeqsUpTo(Values \cup {Blank}, MaxArgs)
ShortArgTuples == SeqsUpTo(Values \cup {Blank}, MaxShortArgs)
ItemSeqs == SeqsUpTo(Values, MaxLen)
ChainSeqs == SeqsUpTo(Values, MaxChainLen)

(***************************************************************************)
(* List._f: the binder.  The callable it returns is a closure; in the      *)
(* placeholder branch the closure owns the list args and writes the        *)
(* runtime value into it on every call.                                    *)
(***************************************************************************)
Index(args, v) ==
  CHOOSE i \in 1 .. Len(args) : args[i] = v /\ \A j \in 1 .. (i - 1) : args[j] # v

List_f(f, args, kwargs) ==
  IF args = <<>> /\ ~kwargs
  THEN [mode |-> "x", f |-> f, args |-> <<>>, kwargs |-> FALSE, pos |-> 0]
  ELSE IF Blank \notin Range(args)
  THEN [mode |-> "prepend", f |-> f, args |-> args, kwargs |-> kwargs, pos |-> 0]
  ELSE [mode |-> "tmp", f |-> f, args |-> args, kwargs |-> kwargs, pos |-> Index(args, Blank)]

(* Mutants of CallArgs: the slot is written only while it still holds the  *)
(* placeholder; the runtime value is put after the bound arguments.        *)
CallArgs_FirstValueSticks(c, x) ==
  CASE c.mode = "x" -> <<x>>
    [] c.mode = "prepend" -> <<x>> \o c.args
    [] OTHER -> IF c.args[c.pos] = Blank THEN [c.args EXCEPT ![c.pos] = x] ELSE c.args

CallArgs_Appended(c, x) ==
  CASE c.mode = "x" -> <<x>>
    [] c.mode = "prepend" -> c.args \o <<x>>
    [] OTHER -> [c.args EXCEPT ![c.pos] = x]

(* The positional arguments the callable c passes to f for runtime value x. *)
CallArgs(c, x) ==
  CASE c.mode = "x" -> <<x>>
    [] c.mode = "prepend" -> <<x>> \o c.args
    [] OTHER -> [c.args EXCEPT ![c.pos] = x]

(* One call c(x): f's result, the arguments f got, and the closure after.  *)
Invoke(c, x) ==
  LET argv == CallArgs(c, x)
  IN  [res |-> Call(c.f, argv, c.kwargs),
       argv |-> argv,
       c |-> IF c.mode = "tmp" THEN [c EXCEPT !.args = argv] ELSE c]

(***************************************************************************)
(* The generators map, keep and rem hand to _moka_assign, run from element *)
(* i on: the values produced, the argument tuples passed to f, and whether *)
(* f raised (which ends the generator).                                    *)
(***************************************************************************)
RECURSIVE MapGen(_, _, _, _, _)
MapGen(items, i, c, out, calls) ==
  IF i > Len(items) THEN [raised |-> FALSE, out |-> out, calls |-> calls]
  ELSE LET r == Invoke(c, items[i])
       IN  IF ~r.res.ok
           THEN [raised |-> TRUE, out |-> out, calls |-> Append(calls, r.argv)]
           ELSE MapGen(items, i + 1, r.c, Append(out, r.res.val), Append(calls, r.argv))

RECURSIVE KeepGen(_, _, _, _, _)
KeepGen(items, i, c, out, calls) ==
  IF i > Len(items) THEN [raised |-> FALSE, out |-> out, calls |-> calls]
  ELSE LET r == Invoke(c, items[i])
       IN  IF ~r.res.ok
           THEN [raised |-> TRUE, out |-> out, calls |-> Append(calls, r.argv)]
           ELSE KeepGen(items, i + 1, r.c,
                        IF Truthy(r.res.val) THEN Append(out, items[i]) ELSE out,
                        Append(calls, r.argv))

RECURSIVE RemGen(_, _, _, _, _)
RemGen(items, i, c, out, calls) ==
  IF i > Len(items) THEN [raised |-> FALSE, out |-> out, calls |-> calls]
  ELSE LET r == Invoke(c, items[i])
       IN  IF ~r.res.ok
           THEN [raised |-> TRUE, out |-> out, calls |-> Append(calls, r.argv)]
           ELSE RemGen(items, i + 1, r.c,
                       IF ~Truthy(r.res.val) THEN Append(out, items[i]) ELSE out,
                       Append(calls, r.argv))

(* Mutants of List._moka_assign: the result goes to a new List; the        *)
(* elements are stored one by one as the generator yields them.            *)
List_moka_assign_Copy(h, s, g) ==
  IF g.raised THEN [heap |-> h, ret |-> Raise, calls |-> g.calls]
  ELSE [heap |-> Append(h, ListObj(g.out)), ret |-> Ref(Len(h) + 1), calls |-> g.calls]

List_moka_assign_Partial(h, s, g) ==
  [heap |-> [h EXCEPT ![s].items = g.out],
   ret |-> IF g.raised THEN Raise ELSE Ref(s),
   calls |-> g.calls]

(* List._moka_assign: self[:] = items; return self.  The slice assignment  *)
(* first exhausts the generator into a list and then stores it, so an      *)
(* error raised by the generator leaves self as it was.                    *)
List_moka_assign(h, s, g) ==
  IF g.raised THEN [heap |-> h, ret |-> Raise, calls |-> g.calls]
  ELSE [heap |-> [h EXCEPT ![s].items = g.out], ret |-> Ref(s), calls |-> g.calls]

List_map(h, s, f, args, kwargs) ==
  List_moka_assign(h, s, MapGen(h[s].items, 1, List_f(f, args, kwargs), <<>>, <<>>))

List_keep(h, s, f, args, kwargs) ==
  List_moka_assign(h, s, KeepGen(h[s].items, 1, List_f(f, args, kwargs), <<>>, <<>>))

List_rem(h, s, f, args, kwargs) ==
  List_moka_assign(h, s, RemGen(h[s].items, 1, List_f(f, args, kwargs), <<>>, <<>>))


(***************************************************************************)
(* The scans: find, all and empty(pred) stop at the first element that     *)
(* decides them, or at the first error.  Python's True and False are 1     *)
(* and 0.                                                                  *)
(***************************************************************************)
PyBool(b) == Val(IF b THEN 1 ELSE 0)

(* Mutant of find's loop: the scan goes on and the last match wins. *)
RECURSIVE FindLoop_Last(_, _, _, _)
FindLoop_Last(items, i, c, calls) ==
  IF i > Len(items) THEN [ret |-> None, calls |-> calls]
  ELSE LET r == Invoke(c, items[i])
           rest == FindLoop_Last(items, i + 1, r.c, Append(calls, r.argv))
       IN  IF ~r.res.ok THEN [ret |-> Raise, calls |-> Append(calls, r.argv)]
           ELSE IF Truthy(r.res.val) /\ rest.ret = None
           THEN [ret |-> Val(items[i]), calls |-> rest.calls]
           ELSE rest

RECURSIVE FindLoop(_, _, _, _)
FindLoop(items, i, c, calls) ==
  IF i > Len(items) THEN [ret |-> None, calls |-> calls]
  ELSE LET r == Invoke(c, items[i])
       IN  IF ~r.res.ok THEN [ret |-> Raise, calls |-> Append(calls, r.argv)]
           ELSE IF Truthy(r.res.val)
           THEN [ret |-> Val(items[i]), calls |-> Append(calls, r.argv)]
           ELSE FindLoop(items, i + 1, r.c, Append(calls, r.argv))

(* Mutant of all's loop: the test is not negated, one match is enough. *)
RECURSIVE AllLoop_Any(_, _, _, _)
AllLoop_Any(items, i, c, calls) ==
  IF i > Len(items) THEN [ret |-> PyBool(TRUE), calls |-> calls]
  ELSE LET r == Invoke(c, items[i])
       IN  IF ~r.res.ok THEN [ret |-> Raise, calls |-> Append(calls, r.argv)]
           ELSE IF Truthy(r.res.val)
           THEN [ret |-> PyBool(FALSE), calls |-> Append(calls, r.argv)]
           ELSE AllLoop_Any(items, i + 1, r.c, Append(calls, r.argv))

RECURSIVE AllLoop(_, _, _, _)
AllLoop(items, i, c, calls) ==
  IF i > Len(items) THEN [ret |-> PyBool(TRUE), calls |-> calls]
  ELSE LET r == Invoke(c, items[i])
       IN  IF ~r.res.ok THEN [ret |-> Raise, calls |-> Append(calls, r.argv)]
           ELSE IF ~Truthy(r.res.val)
           THEN [ret |-> PyBool(FALSE), calls |-> Append(calls, r.argv)]
           ELSE AllLoop(items, i + 1, r.c, Append(calls, r.argv))

RECURSIVE EmptyLoop(_, _, _, _)
EmptyLoop(items, i, c, calls) ==
  IF i > Len(items) THEN [ret |-> PyBool(TRUE), calls |-> calls]
  ELSE LET r == Invoke(c, items[i])
       IN  IF ~r.res.ok THEN [ret |-> Raise, calls |-> Append(calls, r.argv)]
           ELSE IF Truthy(r.res.val)
           THEN EmptyLoop(items, i + 1, r.c, Append(calls, r.argv))
           ELSE [ret |-> PyBool(FALSE), calls |-> Append(calls, r.argv)]

List_find(h, s, f, args, kwargs) ==
  LET r == FindLoop(h[s].items, 1, List_f(f, args, kwargs), <<>>)
  IN  [heap |-> h, ret |-> r.ret, calls |-> r.calls]

List_all(h, s, f, args, kwargs) ==
  LET r == AllLoop(h[s].items, 1, List_f(f, args, kwargs), <<>>)
  IN  [heap |-> h, ret |-> r.ret, calls |-> r.calls]

(* empty() with no argument, and empty(f, ...). *)
List_empty0(h, s) == [heap |-> h, ret |-> PyBool(h[s].items = <<>>), calls |-> <<>>]

List_empty(h, s, f, args, kwargs) ==
  LET r == EmptyLoop(h[s].items, 1, List_f(f, args, kwargs), <<>>)
  IN  [heap |-> h, ret |-> r.ret, calls |-> r.calls]

(* clone: List(self), a new object. *)
List_clone(h, s) ==
  [heap |-> Append(h, ListObj(h[s].items)), ret |-> Ref(Len(h) + 1), calls |-> <<>>]

(* count() with no argument is len(self); count(f, ...) is               *)
(* self.clone().keep(f, ...).count(): keep runs on the clone, which is   *)
(* dropped when count returns.                                           *)
List_count0(h, s) == [heap |-> h, ret |-> Val(Len(h[s].items)), calls |-> <<>>]

(* Mutant of count(f, ...): the clone is counted unfiltered. *)
List_count_Unfiltered(h, s, f, args, kwargs) ==
  LET cl == List_clone(h, s)
  IN  [heap |-> h, ret |-> List_count0(cl.heap, cl.ret.v).ret, calls |-> <<>>]

List_count(h, s, f, args, kwargs) ==
  LET cl == List_clone(h, s)
      k == List_keep(cl.heap, cl.ret.v, f, args, kwargs)
  IN  IF k.ret.kind # "ref" THEN [heap |-> h, ret |-> k.ret, calls |-> k.calls]
      ELSE [heap |-> h, ret |-> List_count0(k.heap, k.ret.v).ret, calls |-> k.calls]

(* do: self._f(f, ...)(self), the raw result. *)
List_do(h, s, f, args, kwargs) ==
  LET c == List_f(f, args, kwargs)
      r == CallWith(c.f, CallArgs(c, SelfArg), c.kwargs, h[s])
  IN  [heap |-> h, ret |-> IF r.ok THEN Val(r.val) ELSE Raise, calls |-> <<>>]

(***************************************************************************)
(* The proxied builtin list methods: append, extend, sort, reverse,        *)
(* insert.  wrap copies self into a new List, applies the builtin to the   *)
(* copy and returns the copy.                                              *)
(***************************************************************************)
Min(a, b) == IF a < b THEN a ELSE b

RECURSIVE Reverse(_)
Reverse(s) == IF s = <<>> THEN <<>> ELSE Append(Reverse(Tail(s)), Head(s))

RECURSIVE InsertSorted(_, _)
InsertSorted(s, x) ==
  IF s = <<>> THEN <<x>>
  ELSE IF x < Head(s) THEN <<x>> \o s
  ELSE <<Head(s)>> \o InsertSorted(Tail(s), x)

RECURSIVE Sorted(_)
Sorted(s) == IF s = <<>> THEN <<>> ELSE InsertSorted(Sorted(Tail(s)), Head(s))

InsertAt(s, i, x) ==
  LET n == Min(i, Len(s)) IN SubSeq(s, 1, n) \o <<x>> \o SubSeq(s, n + 1, Len(s))

(* getattr(list, method_name)(inst, *args): the builtin's effect on inst. *)
ListMethod(method_name, items, margs) ==
  CASE method_name = "append" -> Append(items, margs[1])
    [] method_name = "extend" -> items \o margs
    [] method_name = "sort" -> Sorted(items)
    [] method_name = "reverse" -> Reverse(items)
    [] method_name = "insert" -> InsertAt(items, margs[1], margs[2])

(* Mutant of the list proxy: the builtin is applied to self, which is      *)
(* returned.                                                               *)
List_proxy_InPlace(method_name, h, s, margs) ==
  [heap |-> [h EXCEPT ![s].items = ListMethod(method_name, h[s].items, margs)],
   ret |-> Ref(s),
   calls |-> <<>>]

List_proxy(method_name, h, s, margs) ==
  LET inst == ListObj(h[s].items)
  IN  [heap |-> Append(h, [inst EXCEPT !.items = ListMethod(method_name, inst.items, margs)]),
       ret |-> Ref(Len(h) + 1),
       calls |-> <<>>]

(***************************************************************************)
(* Dict.  A Dict's items are a function from its keys to their values;     *)
(* the order in which items() yields them is the caller-invisible choice   *)
(* ord of the dict, any permutation of the keys.                           *)
(***************************************************************************)
(* Mutant of Dict.__init__: the flag starts set. *)
Dict_init_Saving(items) ==
  [cls |-> "Dict", items |-> items, save |-> TRUE, last_value |-> Unset]

(* Dict.__init__: self._moka_save = False, then dict.__init__. *)
Dict_init(items) == [cls |-> "Dict", items |-> items, save |-> FALSE, last_value |-> Unset]

EmptyDict == [k \in {} |-> 0]

SetItem(d, k, v) == [x \in (DOMAIN d) \cup {k} |-> IF x = k THEN v ELSE d[x]]

(* dict.update(d, pairs): later pairs win. *)
RECURSIVE UpdateWith(_, _)
UpdateWith(d, pairs) ==
  IF pairs = <<>> THEN d
  ELSE UpdateWith(SetItem(d, Head(pairs)[1], Head(pairs)[2]), Tail(pairs))

DictVals == UNION {[S -> Values] : S \in SUBSET Keys}
PairSeqs == SeqsUpTo(Keys \X Values, MaxPairs)
Orders(d) ==
  {o \in SeqsUpTo(DOMAIN d, Cardinality(DOMAIN d)) :
     Len(o) = Cardinality(DOMAIN d) /\ Range(o) = DOMAIN d}

(* The caller's two-argument functions: addv(k, v, n) = (k, v + n) and     *)
(* to0(k, v) = (0, v) return a pair, vlt(k, v, n) = v < n is a predicate.  *)
DictFuncs == {"addv", "to0", "vlt"}

DictArity(f) == IF f = "to0" THEN 2 ELSE 3

Pair(k, v) == [ok |-> TRUE, pair |-> TRUE, k |-> k, v |-> v]
Scalar(n) == [ok |-> TRUE, pair |-> FALSE, k |-> 0, v |-> n]
DictFail == [ok |-> FALSE, pair |-> FALSE, k |-> 0, v |-> 0]

DictCall(f, argv, kwargs) ==
  IF kwargs \/ Len(argv) # DictArity(f) \/ \E i \in 1 .. Len(argv) : argv[i] \notin Values
  THEN DictFail
  ELSE CASE f = "addv" -> Pair(argv[1], (argv[2] + argv[3]) % Modulus)
         [] f = "to0" -> Pair(0, argv[2])
         [] f = "vlt" -> Scalar(IF argv[2] < argv[3] THEN 1 ELSE 0)

(* Dict._f: tmp(x, y) = f(x, y, *args, **kwargs); no placeholder. *)
Dict_f(f, args, kwargs) == [f |-> f, args |-> args, kwargs |-> kwargs]

DictInvoke(c, x, y) == DictCall(c.f, <<x, y>> \o c.args, c.kwargs)

(* A non-empty tuple is true; a number is true unless it is 0. *)
DictTruthy(r) == r.pair \/ r.v # 0

(* The generators of map, keep and rem over self.items(): what they yield  *)
(* and whether f raised.                                                   *)
RECURSIVE DictMapGen(_, _, _, _, _)
DictMapGen(d, ord, i, c, out) ==
  IF i > Len(ord) THEN [raised |-> FALSE, out |-> out]
  ELSE LET r == DictInvoke(c, ord[i], d[ord[i]])
       IN  IF ~r.ok THEN [raised |-> TRUE, out |-> out]
           ELSE DictMapGen(d, ord, i + 1, c, Append(out, r))

RECURSIVE DictKeepGen(_, _, _, _, _)
DictKeepGen(d, ord, i, c, out) ==
  IF i > Len(ord) THEN [raised |-> FALSE, out |-> out]
  ELSE LET r == DictInvoke(c, ord[i], d[ord[i]])
       IN  IF ~r.ok THEN [raised |-> TRUE, out |-> out]
           ELSE DictKeepGen(d, ord, i + 1, c,
                            IF DictTruthy(r) THEN Append(out, Pair(ord[i], d[ord[i]])) ELSE out)

RECURSIVE DictRemGen(_, _, _, _, _)
DictRemGen(d, ord, i, c, out) ==
  IF i > Len(ord) THEN [raised |-> FALSE, out |-> out]
  ELSE LET r == DictInvoke(c, ord[i], d[ord[i]])
       IN  IF ~r.ok THEN [raised |-> TRUE, out |-> out]
           ELSE DictRemGen(d, ord, i + 1, c,
                           IF ~DictTruthy(r) THEN Append(out, Pair(ord[i], d[ord[i]])) ELSE out)

(* Dict(items) on what a generator yields: every element must be a pair    *)
(* (TypeError otherwise); later pairs win.                                 *)
RECURSIVE DictFromItems(_, _)
DictFromItems(ys, d) ==
  IF ys = <<>> THEN [raised |-> FALSE, items |-> d]
  ELSE IF ~Head(ys).pair THEN [raised |-> TRUE, items |-> d]
  ELSE DictFromItems(Tail(ys), SetItem(d, Head(ys).k, Head(ys).v))

(* Dict._moka_assign: with _moka_save set, pass (the generator is never    *)
(* run and None is returned); otherwise Dict(items).                       *)
Dict_moka_assign(h, s, g) ==
  IF h[s].save THEN [heap |-> h, ret |-> None, calls |-> <<>>]
  ELSE LET d == DictFromItems(g.out, EmptyDict)
       IN  IF g.raised \/ d.raised THEN [heap |-> h, ret |-> Raise, calls |-> <<>>]
           ELSE [heap |-> Append(h, Dict_init(d.items)), ret |-> Ref(Len(h) + 1),
                 calls |-> <<>>]

Dict_map(h, s, ord, f, args, kwargs) ==
  Dict_moka_assign(h, s, DictMapGen(h[s].items, ord, 1, Dict_f(f, args, kwargs), <<>>))

Dict_keep(h, s, ord, f, args, kwargs) ==
  Dict_moka_assign(h, s, DictKeepGen(h[s].items, ord, 1, Dict_f(f, args, kwargs), <<>>))

Dict_rem(h, s, ord, f, args, kwargs) ==
  Dict_moka_assign(h, s, DictRemGen(h[s].items, ord, 1, Dict_f(f, args, kwargs), <<>>))

(* clone and copy: Dict(self). *)
Dict_clone(h, s) ==
  [heap |-> Append(h, Dict_init(h[s].items)), ret |-> Ref(Len(h) + 1), calls |-> <<>>]

Dict_copy(h, s) ==
  [heap |-> Append(h, Dict_init(h[s].items)), ret |-> Ref(Len(h) + 1), calls |-> <<>>]

(* fromkeys(keys, value): Dict(dict.fromkeys(keys, value)). *)
Dict_fromkeys(keys, value) == Dict_init([k \in keys |-> value])

(* do: self.last_value = function(self, *args, **kwargs); return self. *)
Dict_do(h, s, f, args, kwargs) ==
  LET r == CallWith(f, <<SelfArg>> \o args, kwargs, h[s])
  IN  IF ~r.ok THEN [heap |-> h, ret |-> Raise, calls |-> <<>>]
      ELSE [heap |-> [h EXCEPT ![s].last_value = Val(r.val)], ret |-> Ref(s), calls |-> <<>>]

(* The proxied builtin dict methods update and clear, on a copy. *)
DictMethod(method_name, items, margs) ==
  CASE method_name = "update" -> UpdateWith(items, margs)
    [] method_name = "clear" -> EmptyDict

Dict_proxy(method_name, h, s, margs) ==
  LET inst == Dict_init(h[s].items)
  IN  [heap |-> Append(h, [inst EXCEPT !.items = DictMethod(method_name, inst.items, margs)]),
       ret |-> Ref(Len(h) + 1),
       calls |-> <<>>]

(***************************************************************************)
(* Actions.  A call on receiver s with result r = [heap, ret, calls]       *)
(* leaves its record in last: the call, the receiver and the heap as they  *)
(* were before it (pre, heap0, nobjs), and what it returned.  The caller   *)
(* makes the next call after dropping the record.                          *)
(***************************************************************************)
NoCall == [op |-> "none", cls |-> "none", recv |-> 0, f |-> "", args |-> <<>>,
           kwargs |-> FALSE, pre |-> ListObj(<<>>), ret |-> None, calls |-> <<>>,
           nobjs |-> 0, heap0 |-> <<>>]

Idle == last.op = "none"

CanAlloc == Len(heap) < MaxObjs

Returns(op, s, f, args, kwargs, r) ==
  /\ heap' = r.heap
  /\ last' = [op |-> op, cls |-> heap[s].cls, recv |-> s, f |-> f, args |-> args,
              kwargs |-> kwargs, pre |-> heap[s], ret |-> r.ret, calls |-> r.calls,
              nobjs |-> Len(heap), heap0 |-> heap]

Constructs(op, obj) ==
  /\ heap' = Append(heap, obj)
  /\ last' = [NoCall EXCEPT !.op = op, !.cls = obj.cls, !.ret = Ref(Len(heap) + 1),
                            !.nobjs = Len(heap), !.heap0 = heap]

Discard ==
  /\ ~Idle
  /\ last' = NoCall
  /\ UNCHANGED heap

NewList ==
  /\ Idle /\ heap = <<>>
  /\ \E items \in ChainSeqs : Constructs("List", ListObj(items))

ListMap(A) ==
  /\ Idle
  /\ \E s \in ListRefs, f \in Funcs, args \in A, kwargs \in BOOLEAN :
       Returns("map", s, f, args, kwargs, List_map(heap, s, f, args, kwargs))

ListKeep(A) ==
  /\ Idle
  /\ \E s \in ListRefs, f \in Funcs, args \in A, kwargs \in BOOLEAN :
       Returns("keep", s, f, args, kwargs, List_keep(heap, s, f, args, kwargs))

ListRem(A) ==
  /\ Idle
  /\ \E s \in ListRefs, f \in Funcs, args \in A, kwargs \in BOOLEAN :
       Returns("rem", s, f, args, kwargs, List_rem(heap, s, f, args, kwargs))

ListFind(A) ==
  /\ Idle
  /\ \E s \in ListRefs, f \in Funcs, args \in A, kwargs \in BOOLEAN :
       Returns("find", s, f, args, kwargs, List_find(heap, s, f, args, kwargs))

ListAll(A) ==
  /\ Idle
  /\ \E s \in ListRefs, f \in Funcs, args \in A, kwargs \in BOOLEAN :
       Returns("all", s, f, args, kwargs, List_all(heap, s, f, args, kwargs))

ListCount(A) ==
  /\ Idle
  /\ \E s \in ListRefs :
       \/ Returns("count0", s, "", <<>>, FALSE, List_count0(heap, s))
       \/ \E f \in Funcs, args \in A, kwargs \in BOOLEAN :
            Returns("count", s, f, args, kwargs, List_count(heap, s, f, args, kwargs))

ListEmpty(A) ==
  /\ Idle
  /\ \E s \in ListRefs :
       \/ Returns("empty0", s, "", <<>>, FALSE, List_empty0(heap, s))
       \/ \E f \in Funcs, args \in A, kwargs \in BOOLEAN :
            Returns("empty", s, f, args, kwargs, List_empty(heap, s, f, args, kwargs))

ListDo ==
  /\ Idle
  /\ \E s \in ListRefs, f \in ContainerFuncs, args \in ShortArgTuples, kwargs \in BOOLEAN :
       Returns("do", s, f, args, kwargs, List_do(heap, s, f, args, kwargs))

ListClone ==
  /\ Idle /\ CanAlloc
  /\ \E s \in ListRefs : Returns("clone", s, "", <<>>, FALSE, List_clone(heap, s))

ListAppend ==
  /\ Idle /\ CanAlloc
  /\ \E s \in ListRefs, x \in Values :
       /\ Len(heap[s].items) < MaxChainLen
       /\ Returns("append", s, "", <<x>>, FALSE, List_proxy("append", heap, s, <<x>>))

ListExtend ==
  /\ Idle /\ CanAlloc
  /\ \E s \in ListRefs, ys \in ChainSeqs :
       /\ Len(heap[s].items) + Len(ys) <= MaxChainLen
       /\ Returns("extend", s, "", ys, FALSE, List_proxy("extend", heap, s, ys))

ListSort ==
  /\ Idle /\ CanAlloc
  /\ \E s \in ListRefs : Returns("sort", s, "", <<>>, FALSE, List_proxy("sort", heap, s, <<>>))

ListReverse ==
  /\ Idle /\ CanAlloc
  /\ \E s \in ListRefs :
       Returns("reverse", s, "", <<>>, FALSE, List_proxy("reverse", heap, s, <<>>))

ListInsert ==
  /\ Idle /\ CanAlloc
  /\ \E s \in ListRefs, i \in 0 .. MaxChainLen, x \in Values :
       /\ Len(heap[s].items) < MaxChainLen
       /\ Returns("insert", s, "", <<i, x>>, FALSE, List_proxy("insert", heap, s, <<i, x>>))

NewDict ==
  /\ Idle /\ heap = <<>>
  /\ \E items \in DictVals : Constructs("Dict", Dict_init(items))

DictFromkeys ==
  /\ Idle /\ heap = <<>>
  /\ \E keys \in SUBSET Keys, value \in Values :
       Constructs("fromkeys", Dict_fromkeys(keys, value))

DictClone ==
  /\ Idle /\ CanAlloc
  /\ \E s \in DictRefs : Returns("clone", s, "", <<>>, FALSE, Dict_clone(heap, s))

DictCopy ==
  /\ Idle /\ CanAlloc
  /\ \E s \in DictRefs : Returns("copy", s, "", <<>>, FALSE, Dict_copy(heap, s))

DictUpdate ==
  /\ Idle /\ CanAlloc
  /\ \E s \in DictRefs, pairs \in PairSeqs :
       Returns("update", s, "", pairs, FALSE, Dict_proxy("update", heap, s, pairs))

DictClear ==
  /\ Idle /\ CanAlloc
  /\ \E s \in DictRefs : Returns("clear", s, "", <<>>, FALSE, Dict_proxy("clear", heap, s, <<>>))

DictMap ==
  /\ Idle /\ CanAlloc
  /\ \E s \in DictRefs, f \in DictFuncs, args \in ShortArgTuples, kwargs \in BOOLEAN :
       \E ord \in Orders(heap[s].items) :
         Returns("map", s, f, args, kwargs, Dict_map(heap, s, ord, f, args, kwargs))

DictKeep ==
  /\ Idle /\ CanAlloc
  /\ \E s \in DictRefs, f \in DictFuncs, args \in ShortArgTuples, kwargs \in BOOLEAN :
       \E ord \in Orders(heap[s].items) :
         Returns("keep", s, f, args, kwargs, Dict_keep(heap, s, ord, f, args, kwargs))

DictRem ==
  /\ Idle /\ CanAlloc
  /\ \E s \in DictRefs, f \in DictFuncs, args \in ShortArgTuples, kwargs \in BOOLEAN :
       \E ord \in Orders(heap[s].items) :
         Returns("rem", s, f, args, kwargs, Dict_rem(heap, s, ord, f, args, kwargs))

DictDo ==
  /\ Idle
  /\ \E s \in DictRefs, f \in ContainerFuncs, args \in ShortArgTuples, kwargs \in BOOLEAN :
       Returns("do", s, f, args, kwargs, Dict_do(heap, s, f, args, kwargs))

(***************************************************************************)
(* Spec: a caller that builds one List or Dict and calls the copying       *)
(* methods, the transforms and do on it and on the containers these       *)
(* return.                                                                 *)
(***************************************************************************)
Init ==
  /\ heap = <<>>
  /\ last = NoCall

Next ==
  \/ NewList
  \/ ListMap(ShortArgTuples)
  \/ ListKeep(ShortArgTuples)
  \/ ListRem(ShortArgTuples)
  \/ ListDo
  \/ ListClone
  \/ ListAppend
  \/ ListExtend
  \/ ListSort
  \/ ListReverse
  \/ ListInsert
  \/ NewDict
  \/ DictFromkeys
  \/ DictClone
  \/ DictCopy
  \/ DictUpdate
  \/ DictClear
  \/ DictMap
  \/ DictKeep
  \/ DictRem
  \/ DictDo
  \/ Discard

Spec == Init /\ [][Next]_vars

(***************************************************************************)
(* SpecList: one List, any contents, and the methods that resolve a        *)
(* callable through the binder, with every shape of bound arguments.       *)
(***************************************************************************)
InitList ==
  /\ heap \in {<<ListObj(items)>> : items \in ItemSeqs}
  /\ last = NoCall

NextList ==
  \/ ListMap(ArgTuples)
  \/ ListKeep(ArgTuples)
  \/ ListRem(ArgTuples)
  \/ ListFind(ArgTuples)
  \/ ListAll(ArgTuples)
  \/ ListCount(ArgTuples)
  \/ ListEmpty(ArgTuples)
  \/ Discard

SpecList == InitList /\ [][NextList]_vars

(***************************************************************************)
(* Properties.  They read the record of the last call: Old is what the     *)
(* receiver held before it, Now what it holds after it.  ResultOn(x) is    *)
(* what the caller's function, bound as in the call, gives for x.          *)
(***************************************************************************)
Old == last.pre.items
Now == heap[last.recv].items

ResultOn(x) == Invoke(List_f(last.f, last.args, last.kwargs), x).res
Sat(x) == ResultOn(x).ok /\ Truthy(ResultOn(x).val)
FailsOn(x) == ~ResultOn(x).ok

ListCall(ops) == last.cls = "List" /\ last.op \in ops
Transforms == {"map", "keep", "rem"}
BinderOps == {"map", "keep", "rem", "find", "all", "count", "empty"}

(* C1 as stated: map, keep and rem of a List return a container that is    *)
(* not the receiver, and the receiver holds after the call what it held    *)
(* before it.                                                              *)
C1_ReturnsNewAndKeepsReceiver ==
  (ListCall(Transforms) /\ last.ret.kind = "ref")
    => (last.ret.v # last.recv /\ Now = Old)

TransformOf(items) ==
  CASE last.op = "map" -> [k \in 1 .. Len(items) |-> ResultOn(items[k]).val]
    [] last.op = "keep" -> SelectSeq(items, LAMBDA x : Truthy(ResultOn(x).val))
    [] last.op = "rem" -> SelectSeq(items, LAMBDA x : ~Truthy(ResultOn(x).val))

(* C1 amended: map, keep and rem of a List that do not raise return the    *)
(* receiver itself, create no container, and leave in the receiver, in     *)
(* order, f(x) for each former element x (map), the former elements f is   *)
(* true of (keep), the former elements f is false of (rem).                *)
C1_ReturnsReceiverTransformed ==
  (ListCall(Transforms) /\ last.ret.kind # "raise")
    => /\ last.ret = Ref(last.recv)
       /\ Len(heap) = last.nobjs
       /\ Now = TransformOf(Old)

C1_Witness ==
  /\ ListCall({"map"}) /\ last.ret = Ref(last.recv)
  /\ Len(Old) = 3 /\ Now # Old

(* The positions of the placeholder among the bound arguments. *)
Slots == {i \in 1 .. Len(last.args) : last.args[i] = Blank}

(* C3: with exactly one placeholder among the bound positional arguments,  *)
(* at position p, every call the method makes for an element x passes f    *)
(* the bound arguments in order with x at position p, whatever value an    *)
(* earlier call put there; the k-th call is for the k-th element, and map  *)
(* stores what f returned for these arguments.                             *)
C3_PlaceholderFilledPerCall ==
  (ListCall(BinderOps) /\ Cardinality(Slots) = 1)
    => LET p == CHOOSE i \in Slots : TRUE
           Argv(x) == [i \in 1 .. Len(last.args) |-> IF i = p THEN x ELSE last.args[i]]
       IN  /\ Len(last.calls) <= Len(Old)
           /\ \A k \in 1 .. Len(last.calls) : last.calls[k] = Argv(Old[k])
           /\ (last.op = "map" /\ last.ret.kind = "ref")
                => /\ Len(last.calls) = Len(Old)
                   /\ \A k \in 1 .. Len(Old) :
                        Now[k] = Call(last.f, Argv(Old[k]), last.kwargs).val

C3_Witness ==
  /\ ListCall({"map"}) /\ last.ret.kind = "ref"
  /\ last.f = "sub" /\ last.args = <<1, Blank>>
  /\ Old = <<0, 2, 1>> /\ Now = <<1, 2, 0>>
  /\ last.calls = <<(<<1, 0>>), (<<1, 2>>), (<<1, 1>>)>>

(* C4: with bound arguments and no placeholder among them, every call for  *)
(* an element x passes f the value x first and the bound arguments after   *)
(* it, in order; with no bound argument it passes x alone; map stores      *)
(* what f returned for these arguments.                                    *)
C4_RuntimeValueFirst ==
  (ListCall(BinderOps) /\ Slots = {})
    => LET Argv(x) == <<x>> \o last.args
       IN  /\ Len(last.calls) <= Len(Old)
           /\ \A k \in 1 .. Len(last.calls) : last.calls[k] = Argv(Old[k])
           /\ (last.op = "map" /\ last.ret.kind = "ref")
                => /\ Len(last.calls) = Len(Old)
                   /\ \A k \in 1 .. Len(Old) :
                        Now[k] = Call(last.f, Argv(Old[k]), last.kwargs).val

C4_Witness ==
  /\ ListCall({"map"}) /\ last.ret.kind = "ref"
  /\ last.f = "sub" /\ last.args = <<1>>
  /\ Old = <<0, 2, 1>> /\ Now = <<2, 1, 0>>

(* C6: find returns the element at the smallest index that satisfies the   *)
(* predicate and None when no element satisfies it; it raises only if the  *)
(* predicate does.                                                         *)
C6_FindFirstOrNone ==
  ListCall({"find"})
    => LET hits == {k \in 1 .. Len(Old) : Sat(Old[k])}
           first == CHOOSE k \in hits : \A j \in hits : k <= j
       IN  /\ (\A k \in 1 .. Len(Old) : ~FailsOn(Old[k])) => last.ret.kind # "raise"
           /\ last.ret.kind # "raise"
                => last.ret = IF hits = {} THEN None ELSE Val(Old[first])
           /\ Now = Old

C6_Witness ==
  /\ ListCall({"find"}) /\ last.f = "lt" /\ last.args = <<0, Blank>>
  /\ Old = <<0, 2, 1>> /\ last.ret = Val(2)

(* C7: count(pred) is the number of elements that satisfy pred and is      *)
(* what keep(pred).count() gives on the same List, in either order: with   *)
(* count(pred) called first and keep(pred).count() after it, and with      *)
(* keep(pred).count() called first and count(pred) after it.               *)
C7_CountIsKeepCount ==
  /\ (ListCall({"count"}) /\ last.ret.kind # "raise")
       => LET k == List_keep(heap, last.recv, last.f, last.args, last.kwargs)
          IN  /\ last.ret = Val(Cardinality({i \in 1 .. Len(Old) : Sat(Old[i])}))
              /\ k.ret.kind = "ref"
              /\ List_count0(k.heap, k.ret.v).ret = last.ret
  /\ (ListCall({"keep"}) /\ last.ret.kind = "ref")
       => LET n == List_count0(heap, last.ret.v).ret
          IN  /\ n = Val(Cardinality({i \in 1 .. Len(Old) : Sat(Old[i])}))
              /\ List_count(heap, last.recv, last.f, last.args, last.kwargs).ret = n
              /\ List_count(last.heap0, last.recv, last.f, last.args, last.kwargs).ret = n

C7_Witness ==
  /\ ListCall({"count"}) /\ last.f = "lt" /\ last.args = <<0, Blank>>
  /\ Old = <<1, 0, 2>> /\ last.ret = Val(2)

(* The negation of a predicate of the caller's. *)
Negatable == {"lt", "not_lt"}
NotF(f) == IF f = "lt" THEN "not_lt" ELSE "lt"

(* C8: all(pred) is true exactly if keep(not pred).empty() is, on the      *)
(* same List in either order, the empty List included.                     *)
C8_AllIffKeepNotEmpty ==
  /\ (ListCall({"all"}) /\ last.f \in Negatable /\ last.ret.kind # "raise")
       => LET k == List_keep(heap, last.recv, NotF(last.f), last.args, last.kwargs)
          IN  /\ k.ret.kind = "ref"
              /\ List_empty0(k.heap, k.ret.v).ret = last.ret
  /\ (ListCall({"keep"}) /\ last.f \in Negatable /\ last.ret.kind = "ref")
       => LET e == List_empty0(heap, last.ret.v).ret
          IN  /\ List_all(heap, last.recv, NotF(last.f), last.args, last.kwargs).ret = e
              /\ List_all(last.heap0, last.recv, NotF(last.f), last.args, last.kwargs).ret = e

C8_Witness ==
  /\ ListCall({"all"}) /\ last.f = "lt" /\ last.args = <<2>>
  /\ Old = <<1, 0, 2>> /\ last.ret = PyBool(FALSE)

(* C9: map, keep and rem raise exactly if f raises on some element; f is   *)
(* then called on the elements up to the first one it raises on and on     *)
(* none after it, and the receiver holds what it held before the call.     *)
C9_ErrorLeavesReceiver ==
  ListCall(Transforms)
    => LET bad == {k \in 1 .. Len(Old) : FailsOn(Old[k])}
       IN  /\ (last.ret.kind = "raise") = (bad # {})
           /\ last.ret.kind = "raise"
                => /\ Now = Old
                   /\ Len(last.calls) \in bad
                   /\ \A k \in bad : Len(last.calls) <= k

C9_Witness ==
  /\ ListCall({"map"}) /\ last.f = "div" /\ last.args = <<2, Blank>>
  /\ Old = <<1, 0, 2>> /\ last.ret = Raise
  /\ last.calls = <<(<<2, 1>>), (<<2, 0>>)>> /\ Now = Old

(***************************************************************************)
(* Properties of the copying methods, checked under Spec.  New is what     *)
(* the returned container holds.                                           *)
(***************************************************************************)
New == heap[last.ret.v].items

Adapters == {"append", "extend", "sort", "reverse", "insert", "update", "clear"}

Untouched(objs) == \A o \in objs : heap[o] = last.heap0[o]

Occurrences(s, v) == Cardinality({i \in 1 .. Len(s) : s[i] = v})

(* What the builtin makes of the receiver's elements, stated on the result. *)
Mutated ==
  CASE last.op = "append" -> New = Old \o <<last.args[1]>>
    [] last.op = "extend" -> New = Old \o last.args
    [] last.op = "sort" ->
         /\ Len(New) = Len(Old)
         /\ \A v \in Values : Occurrences(New, v) = Occurrences(Old, v)
         /\ \A i, j \in 1 .. Len(New) : i < j => New[i] <= New[j]
    [] last.op = "reverse" ->
         /\ Len(New) = Len(Old)
         /\ \A i \in 1 .. Len(Old) : New[i] = Old[Len(Old) + 1 - i]
    [] last.op = "insert" ->
         LET n == IF last.args[1] < Len(Old) THEN last.args[1] ELSE Len(Old)
         IN  /\ Len(New) = Len(Old) + 1
             /\ New[n + 1] = last.args[2]
             /\ \A j \in 1 .. n : New[j] = Old[j]
             /\ \A j \in (n + 2) .. Len(New) : New[j] = Old[j - 1]
    [] last.op = "update" ->
         LET given(k) == {i \in 1 .. Len(last.args) : last.args[i][1] = k}
             latest(k) == CHOOSE i \in given(k) : \A j \in given(k) : j <= i
         IN  /\ DOMAIN New = (DOMAIN Old) \cup {last.args[i][1] : i \in 1 .. Len(last.args)}
             /\ \A k \in DOMAIN New :
                  New[k] = IF given(k) = {} THEN Old[k] ELSE last.args[latest(k)][2]
    [] last.op = "clear" -> DOMAIN New = {}

C5_DoReturnsRawResult ==
  (last.op = "do" /\ last.ret.kind # "raise")
    => /\ last.ret.kind = "val"
       /\ Slots = {}
            => last.ret.v = CallWith(last.f, <<SelfArg>> \o last.args, last.kwargs, last.pre).val

DictResultOn(k) == DictInvoke(Dict_f(last.f, last.args, last.kwargs), k, Old[k])

(* C10: no Dict ever has _moka_save set; map, keep and rem of a Dict      *)
(* never return None, leave every container as it was and, unless they    *)
(* raise, return a Dict created by the call that holds the mapped pairs   *)
(* (map), the entries f is true of (keep), the entries f is false of      *)
(* (rem).                                                                  *)
C10_DictSaveUnset ==
  /\ \A o \in DictRefs : ~heap[o].save
  /\ (last.cls = "Dict" /\ last.op \in Transforms)
       => /\ last.ret.kind \in {"ref", "raise"}
          /\ Untouched(1 .. last.nobjs)
          /\ last.ret.kind = "ref"
               => /\ last.ret = Ref(last.nobjs + 1)
                  /\ Len(heap) = last.nobjs + 1
                  /\ heap[last.ret.v].cls = "Dict"
                  /\ CASE last.op = "keep" ->
                            New = [k \in {x \in DOMAIN Old : DictTruthy(DictResultOn(x))} |-> Old[k]]
                       [] last.op = "rem" ->
                            New = [k \in {x \in DOMAIN Old : ~DictTruthy(DictResultOn(x))} |-> Old[k]]
                       [] last.op = "map" ->
                            /\ DOMAIN New = {DictResultOn(k).k : k \in DOMAIN Old}
                            /\ \A n \in DOMAIN New :
                                 \E k \in DOMAIN Old :
                                   DictResultOn(k).k = n /\ DictResultOn(k).v = New[n]

C10_Witness ==
  /\ last.cls = "Dict" /\ last.op = "map" /\ last.f = "to0"
  /\ DOMAIN Old = {0, 1} /\ Old[0] # Old[1]
  /\ last.ret.kind = "ref" /\ DOMAIN New = {0} /\ ~heap[last.ret.v].save
====
